---- MODULE Spec2Model ----
(***************************************************************************)
(* Model of the project delay-risk system: the day-stepped project         *)
(* simulator (project_simulator/simulator.py, utils.py, entities.py), the  *)
(* feature engine with ingestion (data_pipeline/features.py, ingest.py,    *)
(* normalize.py), the rule engine (models/rules.py), the hybrid scorer     *)
(* (models/hybrid_risk.py) and the what-if engine                          *)
(* (decision_support/what_if.py).                                          *)
(*                                                                         *)
(* Numbers.  Progress, efficiency and probabilities are floats in the      *)
(* code.  Here efficiency is counted in tenths (1.0 is 10) and             *)
(* probabilities in hundredths (0.3 is 30); hybrid weights are in          *)
(* hundredths as well.  Progress is counted in the unit 1 / ProgressOne,   *)
(* fine enough for every increment and every regression of a task of       *)
(* complexity 1 or 2 to be a whole number of units, so that progress is    *)
(* the exact sum the code's floats approximate.                            *)
(*                                                                         *)
(* Randomness.  The code draws from the process-wide generator of the      *)
(* `random` module, seeded by ProjectSimulator.__init__.  The generator is *)
(* modelled as a deterministic sequence of states `rng`: Rand gives the    *)
(* next state, and the state drawn stands for random() = state / 65537.    *)
(***************************************************************************)
EXTENDS Integers, Sequences, FiniteSets, TLC

VARIABLES
    rng,          \* state of the process-wide generator of module `random`
    seed,         \* the seed argument of ProjectSimulator.__init__
    noise,        \* self.noise
    project,      \* index of the (tasks, resources) input in Projects
    driver,       \* how the caller steps the simulator: "run" | "simulate_day"
    max_days,     \* the max_days argument of run (0 when run is not called)
    tasks,        \* self.tasks, as the sequence of its values in insertion order
    resources,    \* self.resources
    logs,         \* self.logs
    delayed_logs, \* self.delayed_logs
    day,          \* self.day
    iter,         \* number of iterations of the loop of run done so far
    pc,           \* "none" | "constructed" | "running" | "returned" | "raised",
                  \* and "idle" where no simulator is involved
    runNo,        \* 0 before any simulator is built, 1 for the first, 2 for the second
    prev,         \* what the first simulator left behind, once the second is built
    fn,           \* scoring side: the function called last ("none" before any call)
    arg,          \* scoring side: its arguments
    out,          \* scoring side: what it returned or raised
    other         \* another ProjectSimulator of the same process, built while this
                  \* one is in use: its fields, or NoOther

simVars == <<rng, seed, noise, project, driver, max_days, tasks, resources, logs,
             delayed_logs, day, iter, pc, runNo, prev, other>>
scoreVars == <<fn, arg, out>>
vars == <<rng, seed, noise, project, driver, max_days, tasks, resources, logs,
          delayed_logs, day, iter, pc, runNo, prev, fn, arg, out, other>>

-----------------------------------------------------------------------------
(* Bounds of the model *)

MaxSeed == 4
MaxDay == 40
ShortRun == 6
MaxCount == 5
MaxRows == 4
MaxOtherDays == 2
MaxEvents == 12

-----------------------------------------------------------------------------
(* Entities *)

NoDay == -1

Task(id, planned_duration, complexity, priority, skill, deps) ==
    [task_id |-> id, planned_duration |-> planned_duration, complexity |-> complexity,
     priority |-> priority, required_skill |-> skill,
     dependencies |-> deps, actual_start |-> NoDay, actual_end |-> NoDay,
     progress |-> 0, status |-> "not_started"]

Resource(id, skill, efficiency) ==
    [resource_id |-> id, skill_type |-> skill, efficiency |-> efficiency,
     assigned_task |-> "None"]

EventLog(d, id, type, reason) ==
    [day |-> d, task_id |-> id, event_type |-> type, reason |-> reason]

(* The inputs the simulator is built from. *)
Projects ==
    << \* one task, one matching resource
       [tasks |-> << Task("T1", 5, 1, "medium", "dev", << >>) >>,
        resources |-> << Resource("R1", "dev", 10) >>],
       \* a task depending on an earlier one
       [tasks |-> << Task("T1", 5, 2, "medium", "dev", << >>), Task("T2", 5, 1, "medium", "dev", <<"T1">>) >>,
        resources |-> << Resource("R1", "dev", 40) >>],
       \* more ready tasks than resources, and a resource of another skill
       [tasks |-> << Task("T1", 5, 1, "medium", "dev", << >>), Task("T2", 5, 1, "medium", "qa", << >>),
                     Task("T3", 5, 2, "medium", "dev", << >>) >>,
        resources |-> << Resource("R1", "qa", 40) >>],
       \* a dependency on a task created later, two resources
       [tasks |-> << Task("T1", 5, 1, "medium", "dev", <<"T2">>), Task("T2", 5, 1, "medium", "dev", << >>),
                     Task("T3", 5, 1, "medium", "qa", <<"T1", "T2">>) >>,
        resources |-> << Resource("R1", "qa", 30), Resource("R2", "dev", 50) >>],
       \* a dependency list naming an id that is not in the task set
       [tasks |-> << Task("T1", 5, 1, "medium", "dev", << >>), Task("T2", 5, 1, "medium", "dev", <<"T1", "T9">>) >>,
        resources |-> << Resource("R1", "dev", 50) >>],
       \* a task and an empty resource list
       [tasks |-> << Task("T1", 5, 1, "medium", "dev", << >>) >>,
        resources |-> << >>],
       \* no task at all
       [tasks |-> << >>,
        resources |-> << >>]
    >>

NoiseConfigs ==
    { \* the zero-noise configuration of the tests
      [disruption_prob |-> 0, rework_prob |-> 0, external_block_prob |-> 0,
       log_drop_prob |-> 0, log_delay_range |-> <<0, 0>>],
      \* zero noise, logs delayed by 1 to 3 days
      [disruption_prob |-> 0, rework_prob |-> 0, external_block_prob |-> 0,
       log_drop_prob |-> 0, log_delay_range |-> <<1, 3>>],
      \* the default of __init__
      [disruption_prob |-> 10, rework_prob |-> 5, external_block_prob |-> 5,
       log_drop_prob |-> 15, log_delay_range |-> <<1, 3>>],
      \* heavy noise
      [disruption_prob |-> 30, rework_prob |-> 50, external_block_prob |-> 30,
       log_drop_prob |-> 30, log_delay_range |-> <<0, 2>>] }

Seeds == 1..MaxSeed

-----------------------------------------------------------------------------
(* project_simulator/utils.py *)

Rand(r) == (r * 75 + 74) % 65537

\* random.seed(seed): the generator state the seed determines
SeedState(s) == (s * 7919 + 104729) % 65537

\* chance(prob), drawn from generator state r: random() < prob
chance(r, prob) == Rand(r) * 100 < prob * 65537

\* random_delay(min_days, max_days), drawn from generator state r
random_delay(r, min_d, max_d) ==
    min_d + (Rand(r) * (max_d - min_d + 1)) \div 65537

\* random.uniform(a, b), drawn from generator state r: a + (b - a) * random(),
\* for a and b in thousandths; the result is in units of 1 / (1000 * 65537)
uniform(r, a, b) == a * 65537 + (b - a) * Rand(r)

\* the progress 1.0: a thousandth is 4 * 65537 units
ProgressOne == 1000 * 4 * 65537

Max(a, b) == IF a >= b THEN a ELSE b
Min(a, b) == IF a <= b THEN a ELSE b

\* regress_progress(current), drawn from generator state r
regress_progress(r, current) == Max(0, current - 4 * uniform(r, 50, 200))

-----------------------------------------------------------------------------
(* project_simulator/simulator.py.  The operators below work on a record   *)
(* s = [tasks, resources, logs, delayed_logs, rng, raised] of the fields a *)
(* day changes; raised is set when a KeyError leaves simulate_day.         *)

\* index of the task with this id in self.tasks, 0 when the key is missing
TaskIndex(ts, id) ==
    IF \E i \in 1..Len(ts) : ts[i].task_id = id
    THEN CHOOSE i \in 1..Len(ts) : ts[i].task_id = id
    ELSE 0

\* all(self.tasks[dep].status == "completed" for dep in task.dependencies):
\* evaluated left to right, stopping at the first dependency not completed
RECURSIVE deps_from(_, _, _)
deps_from(ts, deps, k) ==
    IF k > Len(deps) THEN "True"
    ELSE IF TaskIndex(ts, deps[k]) = 0 THEN "KeyError"
    ELSE IF ts[TaskIndex(ts, deps[k])].status # "completed" THEN "False"
    ELSE deps_from(ts, deps, k + 1)

\* mutant: the dependency check always passes
dependencies_ignored(ts, task) == "True"

dependencies_completed(ts, task) == deps_from(ts, task.dependencies, 1)

\* mutant: the last resource with no assigned task
find_last_resource(rs) ==
    IF \E r \in 1..Len(rs) : rs[r].assigned_task = "None"
    THEN CHOOSE r \in 1..Len(rs) :
            /\ rs[r].assigned_task = "None"
            /\ \A q \in (r + 1)..Len(rs) : rs[q].assigned_task # "None"
    ELSE 0

\* the first resource with no assigned task, 0 for None
find_resource_for_task(rs) ==
    IF \E r \in 1..Len(rs) : rs[r].assigned_task = "None"
    THEN CHOOSE r \in 1..Len(rs) :
            /\ rs[r].assigned_task = "None"
            /\ \A q \in 1..(r - 1) : rs[q].assigned_task # "None"
    ELSE 0

\* mutant: the first resource keeps its assignment over the night
release_all_but_first(rs) ==
    [r \in 1..Len(rs) |-> IF r = 1 THEN rs[r] ELSE [rs[r] EXCEPT !.assigned_task = "None"]]

\* mutant: the resources keep their assignment over the night
release_nothing(rs) == rs

release_resources(rs) == [r \in 1..Len(rs) |-> [rs[r] EXCEPT !.assigned_task = "None"]]

\* The operators below thread the simulator's fields through the statements of
\* simulate_day in program order.  Each has the form
\*     CHOOSE r \in {(body(s)) : s \in {s0}} : TRUE
\* which is body(s0), with s0 evaluated once.

\* log_event: drop, delay or append
log_event(s0, event) ==
    CHOOSE r \in {(
      IF chance(s.rng, noise.log_drop_prob)
      THEN [s EXCEPT !.rng = Rand(@)]
      ELSE IF chance(Rand(s.rng), 30)
      THEN LET delay_days == random_delay(Rand(Rand(s.rng)),
                                          noise.log_delay_range[1],
                                          noise.log_delay_range[2])
           IN [s EXCEPT !.rng = Rand(Rand(Rand(@))),
                        !.delayed_logs = Append(@, [event EXCEPT !.day = @ + delay_days])]
      ELSE [s EXCEPT !.rng = Rand(Rand(@)), !.logs = Append(@, event)]
      ) : s \in {s0}} : TRUE

\* mutant: the delayed logs are released a day late
flush_late(s, d) ==
    [s EXCEPT !.logs = @ \o SelectSeq(s.delayed_logs, LAMBDA l : l.day < d),
              !.delayed_logs = SelectSeq(@, LAMBDA l : l.day >= d)]

\* the start of simulate_day: the delayed logs whose day has come are released
flush_delayed(s, d) ==
    [s EXCEPT !.logs = @ \o SelectSeq(s.delayed_logs, LAMBDA l : l.day <= d),
              !.delayed_logs = SelectSeq(@, LAMBDA l : l.day > d)]

\* "Start task (or resume from blocked)"
start_task(s0, i, d) ==
    CHOOSE r \in {(
      IF s.tasks[i].status = "not_started" \/ s.tasks[i].status = "blocked"
      THEN CHOOSE r1 \in {([s1 EXCEPT !.tasks[i].status = "in_progress"])
        : s1 \in {IF s.tasks[i].status = "not_started"
                THEN log_event(
                       [s EXCEPT !.tasks[i].actual_start = IF @ = NoDay THEN d ELSE @],
                       EventLog(d, s.tasks[i].task_id, "start", "None"))
                ELSE s}} : TRUE
      ELSE s
      ) : s \in {s0}} : TRUE

\* mutant: completion without the defensive actual_start
complete_task_no_start(s0, i, d) ==
    CHOOSE r \in {(
      IF s.tasks[i].progress >= ProgressOne
      THEN log_event(
             [s EXCEPT !.tasks[i].status = "completed",
                       !.tasks[i].actual_end = d],
             EventLog(d, s.tasks[i].task_id, "complete", "None"))
      ELSE s
      ) : s \in {s0}} : TRUE

\* "Completion"
complete_task(s0, i, d) ==
    CHOOSE r \in {(
      IF s.tasks[i].progress >= ProgressOne
      THEN log_event(
             [s EXCEPT !.tasks[i].actual_start = IF @ = NoDay THEN d ELSE @,
                       !.tasks[i].status = "completed",
                       !.tasks[i].actual_end = d],
             EventLog(d, s.tasks[i].task_id, "complete", "None"))
      ELSE s
      ) : s \in {s0}} : TRUE

\* "Rework (progress regression)"
rework_task(s0, i, d) ==
    CHOOSE r \in {(
      IF chance(s.rng, noise.rework_prob)
      THEN log_event(
             [s EXCEPT !.rng = Rand(Rand(@)),
                       !.tasks[i].progress = regress_progress(Rand(s.rng), @)],
             EventLog(d, s.tasks[i].task_id, "rework", "rework"))
      ELSE [s EXCEPT !.rng = Rand(@)]
      ) : s \in {s0}} : TRUE

\* increment = base_progress * resource.efficiency * skill_penalty / task.complexity,
\* base_progress drawn from generator state r.  In units of progress this is
\* 4 * uniform * (efficiency / 10) * (penalty / 2) / complexity, with penalty
\* 1 for 0.5 and 2 for 1.0; uniform(r, 50, 150) is a multiple of 10, and the
\* division by the complexity leaves no remainder for complexity 1 and 2.
progress_increment(r, resource, task) ==
    ((uniform(r, 50, 150) \div 5) * resource.efficiency
        * (IF resource.skill_type # task.required_skill THEN 1 ELSE 2))
    \div task.complexity

\* "Progress update", with the resource of index res
progress_task(s0, i, d, res) ==
    CHOOSE r \in {(
      log_event(
        [s EXCEPT !.rng = Rand(@),
                  !.tasks[i].progress =
                      @ + progress_increment(s.rng, s.resources[res], s.tasks[i])],
        EventLog(d, s.tasks[i].task_id, "progress",
                 IF s.resources[res].skill_type # s.tasks[i].required_skill
                 THEN "skill_mismatch" ELSE "None"))
      ) : s \in {s0}} : TRUE

\* mutant: the completion check comes before the rework
complete_before_rework(s0, i, d, res) ==
    CHOOSE r \in {(
      IF chance(s.rng, noise.disruption_prob)
      THEN log_event([s EXCEPT !.rng = Rand(@)],
                     EventLog(d, s.tasks[i].task_id, "blocked", "random_disruption"))
      ELSE rework_task(
             complete_task(
               progress_task([s EXCEPT !.rng = Rand(@)], i, d, res), i, d), i, d)
      ) : s \in {s0}} : TRUE

\* "Random disruption" and, without one, progress, rework and completion
disrupt_or_progress(s0, i, d, res) ==
    CHOOSE r \in {(
      IF chance(s.rng, noise.disruption_prob)
      THEN log_event([s EXCEPT !.rng = Rand(@)],
                     EventLog(d, s.tasks[i].task_id, "blocked", "random_disruption"))
      ELSE complete_task(
             rework_task(
               progress_task([s EXCEPT !.rng = Rand(@)], i, d, res), i, d), i, d)
      ) : s \in {s0}} : TRUE

\* "Resource allocation" and everything after it
work_task(s0, i, d) ==
    CHOOSE r \in {(
      IF find_resource_for_task(s.resources) = 0
      THEN log_event([s EXCEPT !.tasks[i].status = "blocked"],
                     EventLog(d, s.tasks[i].task_id, "blocked", "no_resource_available"))
      ELSE disrupt_or_progress(
             [s EXCEPT !.resources[find_resource_for_task(s.resources)].assigned_task =
                           s.tasks[i].task_id],
             i, d, find_resource_for_task(s.resources))
      ) : s \in {s0}} : TRUE

\* "Dependency block", and the rest of the loop body when there is none
gate_task(s0, i, d) ==
    CHOOSE r \in {(
      IF dependencies_completed(s.tasks, s.tasks[i]) = "KeyError"
      THEN [s EXCEPT !.raised = TRUE]
      ELSE IF dependencies_completed(s.tasks, s.tasks[i]) = "False"
      THEN log_event([s EXCEPT !.tasks[i].status = "blocked"],
                     EventLog(d, s.tasks[i].task_id, "blocked", "dependencies"))
      ELSE work_task(start_task(s, i, d), i, d)
      ) : s \in {s0}} : TRUE

\* mutant: a COMPLETED task is processed like any other
process_task_no_skip(s0, i, d) ==
    CHOOSE r \in {(
      IF chance(s.rng, noise.external_block_prob)
      THEN log_event([s EXCEPT !.rng = Rand(@), !.tasks[i].status = "blocked"],
                     EventLog(d, s.tasks[i].task_id, "blocked", "external_block"))
      ELSE gate_task([s EXCEPT !.rng = Rand(@)], i, d)
      ) : s \in {s0}} : TRUE

\* the body of the loop of simulate_day for the i-th task
process_task(s0, i, d) ==
    CHOOSE r \in {(
      IF s.tasks[i].status = "completed" THEN s
      ELSE IF chance(s.rng, noise.external_block_prob)
      THEN log_event([s EXCEPT !.rng = Rand(@), !.tasks[i].status = "blocked"],
                     EventLog(d, s.tasks[i].task_id, "blocked", "external_block"))
      ELSE gate_task([s EXCEPT !.rng = Rand(@)], i, d)
      ) : s \in {s0}} : TRUE

RECURSIVE process_from(_, _, _)
process_from(s0, i, d) ==
    CHOOSE r \in {(
      IF i > Len(s.tasks) \/ s.raised THEN s
      ELSE process_from(process_task(s, i, d), i + 1, d)
      ) : s \in {s0}} : TRUE

\* simulate_day, for self.day already incremented to d
simulate_day(s, d) ==
    CHOOSE r \in {(
      IF s1.raised THEN s1
      ELSE [s1 EXCEPT !.resources = release_resources(@)]
      ) : s1 \in {process_from(flush_delayed(s, d), 1, d)}} : TRUE

\* mutant: the loop of run never breaks
all_never(ts) == FALSE

\* all(t.status == "completed" for t in self.tasks.values())
AllCompleted(ts) == \A i \in 1..Len(ts) : ts[i].status = "completed"

-----------------------------------------------------------------------------
(* What a call gives back: the value it returns, or the exception it raises *)
(* together with the name the exception carries.                           *)

Raise(exception, scenario) ==
    [kind |-> "raise", exception |-> exception, names |-> scenario]

Return(value) == [kind |-> "return", value |-> value]

-----------------------------------------------------------------------------
(* data_pipeline/features.py.  A table (DataFrame) of events or tasks is   *)
(* the sequence of its rows.  A table keyed by task_id, as groupby builds  *)
(* it, is [columns, rows]: the set of its column names and, for each       *)
(* task_id it has a row for, the record of the other columns.  A missing   *)
(* number is NaN, a value no count or day takes; a reason of None is       *)
(* "None".                                                                 *)

NaN == -999

\* the rows the events tables of the model are made of
EventRows ==
    { [day |-> 1, task_id |-> "T1", event_type |-> "progress", reason |-> "None"],
      [day |-> 3, task_id |-> "T1", event_type |-> "progress", reason |-> "None"],
      [day |-> 5, task_id |-> "T1", event_type |-> "progress", reason |-> "skill_mismatch"],
      [day |-> 15, task_id |-> "T1", event_type |-> "progress", reason |-> "None"],
      [day |-> 5, task_id |-> "T1", event_type |-> "rework", reason |-> "rework"],
      [day |-> 2, task_id |-> "T1", event_type |-> "blocked", reason |-> "dependencies"],
      [day |-> 4, task_id |-> "T1", event_type |-> "blocked", reason |-> "None"],
      [day |-> 3, task_id |-> "T2", event_type |-> "progress", reason |-> "None"],
      [day |-> 4, task_id |-> "T2", event_type |-> "rework", reason |-> "rework"],
      [day |-> 1, task_id |-> "T2", event_type |-> "blocked",
       reason |-> "no_resource_available"],
      [day |-> 2, task_id |-> "T2", event_type |-> "blocked", reason |-> "vendor_delay"] }

\* events tables: up to MaxRows of these rows, in any order, repeats included
EventTables == UNION {[1..n -> EventRows] : n \in 0..MaxRows}

\* tasks tables: T3 has no event; the second table lacks T2 and is ordered otherwise
TaskTables ==
    { << [task_id |-> "T1", planned_duration |-> 5],
         [task_id |-> "T2", planned_duration |-> 5],
         [task_id |-> "T3", planned_duration |-> 3] >>,
      << [task_id |-> "T3", planned_duration |-> 3],
         [task_id |-> "T1", planned_duration |-> 5] >> }

\* events[events["event_type"] == type]
of_type(events, type) == SelectSeq(events, LAMBDA e : e.event_type = type)

\* the keys of groupby("task_id")
task_ids(rows) == {rows[k].task_id : k \in 1..Len(rows)}

\* the number of rows of this task: groupby(...).size()
size_of(rows, t) == Cardinality({k \in 1..Len(rows) : rows[k].task_id = t})

BLOCK_COLUMNS == {"dependencies", "no_resource_available", "skill_mismatch",
                  "external_block", "random_disruption"}

RECURSIVE SumOver(_, _)
SumOver(counts, cols) ==
    IF cols = {} THEN 0
    ELSE LET c == CHOOSE x \in cols : TRUE IN counts[c] + SumOver(counts, cols \ {c})

\* mutant: the total leaves out the random disruptions
block_total_no_disruption(counts) == SumOver(counts, BLOCK_COLUMNS \ {"random_disruption"})

\* block_counts[[the five columns]].sum(axis=1), for one row
block_total(counts) == SumOver(counts, BLOCK_COLUMNS)

\* compute_block_features: groupby(["task_id", "reason"]) leaves out the rows
\* whose reason is missing; unstack makes one column per reason present
compute_block_features(events) ==
    LET blocked == SelectSeq(events,
                      LAMBDA e : e.event_type = "blocked" /\ e.reason # "None")
        reasons == {blocked[k].reason : k \in 1..Len(blocked)} \cup BLOCK_COLUMNS
        counts(t) == [c \in reasons |->
                         Cardinality({k \in 1..Len(blocked) :
                             blocked[k].task_id = t /\ blocked[k].reason = c})]
    IN [columns |-> {"task_id", "total_blocked_events"} \cup reasons,
        rows |-> [t \in task_ids(blocked) |->
                    [c \in reasons \cup {"total_blocked_events"} |->
                        IF c = "total_blocked_events" THEN block_total(counts(t))
                        ELSE counts(t)[c]]]]

\* the day column of the rows of task t, in row order
days_of(rows, t) ==
    LET mine == SelectSeq(rows, LAMBDA e : e.task_id = t)
    IN [k \in 1..Len(mine) |-> mine[k].day]

SeqMin(days) == CHOOSE d \in {days[k] : k \in 1..Len(days)} :
                    \A k \in 1..Len(days) : d <= days[k]

SeqMax(days) == CHOOSE d \in {days[k] : k \in 1..Len(days)} :
                    \A k \in 1..Len(days) : d >= days[k]

\* the rework_count of a row of progress_stats: the left merge with
\* rework_counts, then fillna(0)
rework_count(progress, rework, t) == size_of(rework, t)

\* compute_progress_features: one row per task with a progress event
compute_progress_features(events) ==
    LET progress == of_type(events, "progress")
        rework == of_type(events, "rework")
    IN [columns |-> {"task_id", "progress_events", "first_progress_day",
                     "last_progress_day", "rework_count"},
        rows |-> [t \in task_ids(progress) |->
                    [progress_events |-> size_of(progress, t),
                     first_progress_day |-> SeqMin(days_of(progress, t)),
                     last_progress_day |-> SeqMax(days_of(progress, t)),
                     rework_count |-> rework_count(progress, rework, t)]]]

\* days without its k-th element
Without(days, k) == [j \in 1..(Len(days) - 1) |-> IF j < k THEN days[j] ELSE days[j + 1]]

\* mutant: the days are taken in row order
unsorted(days) == days

\* sorted(days): ascending
RECURSIVE sorted(_)
sorted(days) ==
    IF Len(days) = 0 THEN << >>
    ELSE LET k == CHOOSE i \in 1..Len(days) : days[i] = SeqMin(days)
         IN <<days[k]>> \o sorted(Without(days, k))

\* max(days[i + 1] - days[i] for i in range(len(days) - 1)), 0 for one day
max_gap(days) ==
    IF Len(days) <= 1 THEN 0
    ELSE CHOOSE g \in {days[i + 1] - days[i] : i \in 1..(Len(days) - 1)} :
            \A i \in 1..(Len(days) - 1) : g >= days[i + 1] - days[i]

\* compute_stagnation_features: pd.DataFrame(gaps) has the columns of the
\* dicts in gaps, so none at all when no task has a progress event
compute_stagnation_features(events) ==
    LET progress == of_type(events, "progress")
    IN [columns |-> IF Len(progress) = 0 THEN {} ELSE {"task_id", "max_progress_gap"},
        rows |-> [t \in task_ids(progress) |->
                    [max_progress_gap |-> max_gap(sorted(days_of(progress, t)))]]]

\* left.merge(right, on="task_id", how="left"), for rows left that are records:
\* every row of left is kept, with the columns of right's row of that task_id
\* or missing values where right has none
merge_left(left, right) ==
    [i \in 1..Len(left) |->
        [c \in DOMAIN left[i] \cup (right.columns \ {"task_id"}) |->
            IF c \in DOMAIN left[i] THEN left[i][c]
            ELSE IF left[i].task_id \in DOMAIN right.rows
            THEN right.rows[left[i].task_id][c]
            ELSE NaN]]

\* the columns select_dtypes(include="number") leaves out
TEXT_COLUMNS == {"task_id", "priority", "required_skill", "status"}

\* features[numeric_cols].fillna(0)
fillna_zero(features) ==
    [i \in 1..Len(features) |->
        [c \in DOMAIN features[i] |->
            IF c \notin TEXT_COLUMNS /\ features[i][c] = NaN THEN 0
            ELSE features[i][c]]]

\* build_task_features: the third merge raises KeyError('task_id') when the
\* stagnation table has no task_id column
build_task_features(tasks_table, events) ==
    IF "task_id" \notin compute_stagnation_features(events).columns
    THEN Raise("KeyError", "task_id")
    ELSE Return(fillna_zero(
            merge_left(
              merge_left(
                merge_left(tasks_table, compute_block_features(events)),
                compute_progress_features(events)),
              compute_stagnation_features(events))))

-----------------------------------------------------------------------------
(* data_pipeline/ingest.py and normalize.py *)

\* ingest_simulation: the rows of raw["tasks"], one per task of the simulator
ingest_tasks(ts) ==
    [i \in 1..Len(ts) |->
        [task_id |-> ts[i].task_id,
         planned_duration |-> ts[i].planned_duration,
         complexity |-> ts[i].complexity,
         priority |-> ts[i].priority,
         required_skill |-> ts[i].required_skill,
         num_dependencies |-> Len(ts[i].dependencies),
         actual_start |-> ts[i].actual_start,
         actual_end |-> ts[i].actual_end,
         status |-> ts[i].status,
         progress |-> ts[i].progress]]

\* ingest_simulation: the rows of raw["events"], one per entry of simulator.logs
ingest_events(ls) ==
    [k \in 1..Len(ls) |->
        [day |-> ls[k].day,
         task_id |-> ls[k].task_id,
         event_type |-> ls[k].event_type,
         reason |-> ls[k].reason,
         observed_day |-> ls[k].day,
         is_delayed_log |-> FALSE]]

\* sort_values("observed_day"), with the default kind "quicksort": ascending,
\* and no order promised among the rows of an equal observed_day.  This is the
\* set of the tables the sort can return.
RECURSIVE sort_values(_)
sort_values(events) ==
    IF Len(events) = 0 THEN {<< >>}
    ELSE UNION {{<<events[k]>> \o rest : rest \in sort_values(Without(events, k))} :
                  k \in {i \in 1..Len(events) :
                            \A j \in 1..Len(events) :
                                events[i].observed_day <= events[j].observed_day}}

\* normalize_events, applied to pd.DataFrame(raw["events"]): a frame made from
\* an empty list has no columns, and events["observed_day"] raises KeyError.
\* This is the set of what the call can give back.
normalize_events(events) ==
    IF Len(events) = 0 THEN {Raise("KeyError", "observed_day")}
    ELSE {Return(sorted_events) :
            sorted_events \in sort_values(
                [k \in 1..Len(events) |->
                    [events[k] EXCEPT !.is_delayed_log =
                        events[k].observed_day > events[k].day]])}

\* compute_delay of normalize_tasks, for a row whose actual_start and
\* actual_end have been filled
compute_delay(row) ==
    IF row.actual_end < 0 \/ row.actual_start < 0 THEN 0
    ELSE IF row.actual_end - row.actual_start > row.planned_duration THEN 1
    ELSE 0

\* fillna(-1) on a day column
fillna_minus_one(d) == IF d = NoDay THEN -1 ELSE d

\* normalize_tasks, applied to pd.DataFrame(raw["tasks"]): a frame made from
\* an empty list has no columns, and tasks["actual_end"] raises KeyError;
\* otherwise the missing days become -1 and the column delay is added
normalize_tasks(tasks_table) ==
    IF Len(tasks_table) = 0 THEN Raise("KeyError", "actual_end")
    ELSE Return(
            [i \in 1..Len(tasks_table) |->
                [c \in DOMAIN tasks_table[i] \cup {"delay"} |->
                    IF c = "delay"
                    THEN compute_delay(
                           [tasks_table[i] EXCEPT
                               !.actual_end = fillna_minus_one(@),
                               !.actual_start = fillna_minus_one(@)])
                    ELSE IF c \in {"actual_end", "actual_start"}
                    THEN fillna_minus_one(tasks_table[i][c])
                    ELSE tasks_table[i][c]]])

-----------------------------------------------------------------------------
(* The simulator as a state machine *)

Self == [tasks |-> tasks, resources |-> resources, logs |-> logs,
         delayed_logs |-> delayed_logs, rng |-> rng, raised |-> FALSE]

NoPrev == [logs |-> << >>, tasks |-> << >>, pc |-> "none"]

NoOther == [built |-> FALSE]

ScoreIdle == fn = "none" /\ arg = << >> /\ out = << >>

\* Before any simulator exists: the inputs are chosen, and the process-wide
\* generator is in whatever state the process left it in.
Init ==
    /\ seed \in Seeds
    /\ noise \in NoiseConfigs
    /\ project \in 1..Len(Projects)
    /\ \/ driver = "run" /\ max_days \in {0, ShortRun, MaxDay}
       \/ driver = "simulate_day" /\ max_days = 0
    /\ rng \in 0..1
    /\ tasks = << >>
    /\ resources = << >>
    /\ logs = << >>
    /\ delayed_logs = << >>
    /\ day = 0
    /\ iter = 0
    /\ pc = "none"
    /\ runNo = 0
    /\ prev = NoPrev
    /\ other = NoOther
    /\ ScoreIdle

\* mutant: __init__ leaves the generator as it finds it
random_seed_missing(sd) == rng

\* random.seed(seed) in __init__: the state of the generator afterwards
random_seed(sd) == SeedState(sd)

\* ProjectSimulator.__init__(tasks, resources, seed, noise_config), from fresh
\* task and resource lists: the first simulator, and a second one built from
\* equal inputs once the first has run to its end
Construct ==
    /\ \/ pc = "none"
       \/ pc \in {"returned", "raised"} /\ runNo = 1
    /\ prev' = IF runNo = 1 THEN [logs |-> logs, tasks |-> tasks, pc |-> pc] ELSE prev
    /\ runNo' = runNo + 1
    /\ tasks' = Projects[project].tasks
    /\ resources' = Projects[project].resources
    /\ logs' = << >>
    /\ delayed_logs' = << >>
    /\ day' = 0
    /\ rng' = random_seed(seed)
    /\ iter' = 0
    /\ pc' = "constructed"
    /\ UNCHANGED <<seed, noise, project, driver, max_days, fn, arg, out, other>>

\* a direct call of simulate_day
SimulateDay ==
    /\ driver = "simulate_day"
    /\ pc = "constructed"
    /\ day < MaxDay
    /\ \E s \in {simulate_day(Self, day + 1)} :
         /\ day' = day + 1
         /\ tasks' = s.tasks
         /\ resources' = s.resources
         /\ logs' = s.logs
         /\ delayed_logs' = s.delayed_logs
         /\ rng' = s.rng
         /\ pc' = IF s.raised THEN "raised" ELSE "constructed"
    /\ UNCHANGED <<seed, noise, project, driver, max_days, iter, runNo, prev, fn, arg, out,
                   other>>

\* run(max_days) is entered
Run ==
    /\ driver = "run"
    /\ pc = "constructed"
    /\ day = 0
    /\ pc' = IF max_days > 0 THEN "running" ELSE "returned"
    /\ UNCHANGED <<rng, seed, noise, project, driver, max_days, tasks, resources, logs,
                   delayed_logs, day, iter, runNo, prev, fn, arg, out, other>>

\* one iteration of the loop of run
RunDay ==
    /\ pc = "running"
    /\ iter < max_days
    /\ \E s \in {simulate_day(Self, day + 1)} :
         /\ day' = day + 1
         /\ iter' = iter + 1
         /\ tasks' = s.tasks
         /\ resources' = s.resources
         /\ logs' = s.logs
         /\ delayed_logs' = s.delayed_logs
         /\ rng' = s.rng
         /\ pc' = IF s.raised THEN "raised"
                  ELSE IF AllCompleted(s.tasks) \/ iter + 1 = max_days THEN "returned"
                  ELSE "running"
    /\ UNCHANGED <<seed, noise, project, driver, max_days, runNo, prev, fn, arg, out, other>>

\* the pipeline of build_raw_tables once run has returned, for a log of up to
\* MaxEvents entries: ingest_simulation, normalize_tasks, normalize_events and
\* build_task_features on the simulator's tasks and logs (the validators
\* neither read nor change the tables, and find nothing to report in what a
\* simulator hands over)
IngestAndBuildFeatures ==
    /\ pc = "returned"
    /\ fn = "none"
    /\ Len(logs) <= MaxEvents
    /\ IF normalize_tasks(ingest_tasks(tasks)).kind = "raise"
       THEN /\ fn' = "normalize_tasks"
            /\ arg' = [tasks |-> ingest_tasks(tasks)]
            /\ out' = normalize_tasks(ingest_tasks(tasks))
       ELSE \E events \in normalize_events(ingest_events(logs)) :
              IF events.kind = "raise"
              THEN /\ fn' = "normalize_events"
                   /\ arg' = [events |-> ingest_events(logs)]
                   /\ out' = events
              ELSE /\ fn' = "build_task_features"
                   /\ arg' = [tasks |-> normalize_tasks(ingest_tasks(tasks)).value,
                               events |-> events.value]
                   /\ out' = build_task_features(
                                 normalize_tasks(ingest_tasks(tasks)).value, events.value)
    /\ UNCHANGED simVars

Next == Construct \/ SimulateDay \/ Run \/ RunDay \/ IngestAndBuildFeatures

Spec == Init /\ [][Next]_vars

\* Days are simulated one after the other by direct calls of simulate_day,
\* for as long as the model's day bound allows.
LiveInit == Init /\ driver = "simulate_day"

LiveNext == Construct \/ SimulateDay

LiveSpec == LiveInit /\ [][LiveNext]_vars /\ WF_vars(SimulateDay)

\* run(max_days) on a simulator: once entered, the loop goes on by itself
RunInit == Init /\ driver = "run"

RunNext == Construct \/ Run \/ RunDay

RunSpec == RunInit /\ [][RunNext]_vars /\ WF_vars(RunDay)

\* ProjectSimulator.__init__ for another simulator, while the first one is
\* constructed or in its run: tasks and resources of its own, equal to those
\* of the first, any seed, the same noise configuration; random.seed(seed) acts on the generator of
\* module `random`, the one the first simulator draws from
ConstructOther ==
    /\ runNo = 1
    /\ pc \in {"constructed", "running"}
    /\ ~other.built
    /\ \E sd \in Seeds :
         /\ other' = [built |-> TRUE, tasks |-> Projects[project].tasks,
                      resources |-> Projects[project].resources, logs |-> << >>,
                      delayed_logs |-> << >>, day |-> 0, raised |-> FALSE]
         /\ rng' = random_seed(sd)
    /\ UNCHANGED <<seed, noise, project, driver, max_days, tasks, resources, logs,
                   delayed_logs, day, iter, pc, runNo, prev, fn, arg, out>>

\* simulate_day of the other simulator, between two days of the first one
OtherSimulateDay ==
    /\ runNo = 1
    /\ pc \in {"constructed", "running"}
    /\ other.built /\ ~other.raised
    /\ other.day < MaxOtherDays
    /\ \E s \in {simulate_day([tasks |-> other.tasks, resources |-> other.resources,
                                logs |-> other.logs, delayed_logs |-> other.delayed_logs,
                                rng |-> rng, raised |-> FALSE], other.day + 1)} :
         /\ other' = [built |-> TRUE, tasks |-> s.tasks, resources |-> s.resources,
                      logs |-> s.logs, delayed_logs |-> s.delayed_logs,
                      day |-> other.day + 1, raised |-> s.raised]
         /\ rng' = s.rng
    /\ UNCHANGED <<seed, noise, project, driver, max_days, tasks, resources, logs,
                   delayed_logs, day, iter, pc, runNo, prev, fn, arg, out>>

\* a run of the first simulator in a process where another simulator is built
\* and stepped in between
SharedInit == Init /\ driver = "run" /\ max_days = ShortRun

SharedNext == Construct \/ Run \/ RunDay \/ ConstructOther \/ OtherSimulateDay

SharedSpec == SharedInit /\ [][SharedNext]_vars

-----------------------------------------------------------------------------
(* Properties of the simulator *)

ZeroNoise ==
    /\ noise.disruption_prob = 0
    /\ noise.rework_prob = 0
    /\ noise.external_block_prob = 0
    /\ noise.log_drop_prob = 0

Ended == pc \in {"returned", "raised"}

\* C1 (determinism): when the second simulator, built from equal tasks,
\* resources, seed and noise configuration after the first one ran to its end,
\* has itself run to its end, its visible event log equals the first one's entry
\* for entry, and every task has the same final status, progress, actual_start
\* and actual_end as in the first run.
C1_Determinism ==
    (runNo = 2 /\ Ended) =>
        /\ pc = prev.pc
        /\ Len(logs) = Len(prev.logs)
        /\ \A k \in 1..Len(logs) : logs[k] = prev.logs[k]
        /\ Len(tasks) = Len(prev.tasks)
        /\ \A i \in 1..Len(tasks) :
              /\ tasks[i].status = prev.tasks[i].status
              /\ tasks[i].progress = prev.tasks[i].progress
              /\ tasks[i].actual_start = prev.tasks[i].actual_start
              /\ tasks[i].actual_end = prev.tasks[i].actual_end

\* a second run under noise has ended with all tasks completed and a log of
\* several entries, some of them still delayed
C1_Witness ==
    /\ runNo = 2 /\ pc = "returned"
    /\ ~ZeroNoise
    /\ Len(tasks) >= 2
    /\ AllCompleted(tasks)
    /\ Len(logs) >= 4
    /\ Len(delayed_logs) >= 1

DepsDone(ts, i) ==
    \A k \in 1..Len(ts[i].dependencies) :
        /\ TaskIndex(ts, ts[i].dependencies[k]) # 0
        /\ ts[TaskIndex(ts, ts[i].dependencies[k])].status = "completed"

C2_Gated == \A i \in 1..Len(tasks) : tasks[i].status = "in_progress" => DepsDone(tasks, i)

C2_Step ==
    \A i \in 1..Len(tasks) :
        (Len(tasks') = Len(tasks) /\ tasks'[i].progress > tasks[i].progress)
            => DepsDone(tasks', i)

\* C2 (dependency gating): in every state reached from tasks that all start
\* NOT_STARTED, a task that is IN_PROGRESS has all its dependencies COMPLETED,
\* and a day increases a task's progress only if all its dependencies are
\* COMPLETED by the time the task is processed (COMPLETED being terminal, they
\* still are at the end of that day).
C2_DependencyGating == []C2_Gated /\ [][C2_Step]_vars

\* a task with dependencies is IN_PROGRESS with progress made
C2_Witness ==
    \E i \in 1..Len(tasks) :
        /\ Len(tasks[i].dependencies) >= 1
        /\ tasks[i].status = "in_progress"
        /\ tasks[i].progress > 0

\* C3 (completion consistency): at the end of every simulated day, a task is
\* COMPLETED if and only if its actual_end is set and its progress is >= 1.0,
\* and a COMPLETED task has actual_start set with actual_start <= actual_end.
C3_CompletionConsistency ==
    \A i \in 1..Len(tasks) :
        /\ tasks[i].status = "completed"
              <=> (tasks[i].actual_end # NoDay /\ tasks[i].progress >= ProgressOne)
        /\ tasks[i].status = "completed" =>
              /\ tasks[i].actual_start # NoDay
              /\ tasks[i].actual_start <= tasks[i].actual_end

\* a task with dependencies, blocked before it ever started, has completed today
\* with actual_start = actual_end, next to a task that is still short of 1.0
C3_Witness ==
    /\ \E i \in 1..Len(tasks) :
          /\ tasks[i].status = "completed"
          /\ Len(tasks[i].dependencies) >= 1
          /\ tasks[i].actual_end = day
          /\ tasks[i].actual_start = day
    /\ \E i \in 1..Len(tasks) :
          tasks[i].status # "completed" /\ tasks[i].progress > 0

C4_Pre ==
    /\ pc = "constructed"
    /\ ZeroNoise
    /\ Len(resources) >= 1
    /\ \A i \in 1..Len(tasks) : \A k \in 1..Len(tasks[i].dependencies) :
          TaskIndex(tasks, tasks[i].dependencies[k]) # 0

\* C4 (progress under zero noise): with all noise probabilities 0, at least one
\* resource and dependencies that name only tasks of the set (acyclic in every
\* project of the model), simulating days leads to a state in which every task
\* is COMPLETED.
C4_ZeroNoiseProgress == C4_Pre ~> (Len(tasks) >= 1 /\ AllCompleted(tasks))

\* three tasks competing for one resource of another skill have all completed
\* under zero noise
C4_Witness ==
    /\ C4_Pre
    /\ Len(tasks) > Len(resources)
    /\ \E i \in 1..Len(tasks) : tasks[i].required_skill # resources[1].skill_type
    /\ AllCompleted(tasks)

-----------------------------------------------------------------------------
(* models/rules.py *)

Fields == {"total_blocked_events", "dependencies", "no_resource_available",
           "rework_count", "max_progress_gap"}

\* feature records: any of the fields may be absent
Rows == UNION {[D -> 0..MaxCount] : D \in SUBSET Fields}

RULES ==
    << [field |-> "total_blocked_events", threshold |-> 3, score |-> 25,
        severity |-> "critical", reason |-> "Frequent task blocking (3+ events)"],
       [field |-> "dependencies", threshold |-> 2, score |-> 15,
        severity |-> "warning", reason |-> "Heavy dependency constraints (2+ deps)"],
       [field |-> "no_resource_available", threshold |-> 1, score |-> 20,
        severity |-> "critical", reason |-> "Insufficient resource availability"],
       [field |-> "rework_count", threshold |-> 2, score |-> 15,
        severity |-> "warning", reason |-> "Repeated rework events (2+ occurrences)"],
       [field |-> "max_progress_gap", threshold |-> 4, score |-> 15,
        severity |-> "warning", reason |-> "Long progress stagnation (4+ days)"] >>

\* row.get(key, default)
Get(row, key, default) == IF key \in DOMAIN row THEN row[key] ELSE default

\* mutant: a rule fires only above its threshold
rule_fires_above(row, rule) == Get(row, rule.field, 0) > rule.threshold

\* field_value >= rule["threshold"]
rule_fires(row, rule) == Get(row, rule.field, 0) >= rule.threshold

\* the loop of rule_based_risk from rule k on, with the score and reasons so far
RECURSIVE rules_from(_, _, _, _)
rules_from(row, k, score, reasons) ==
    IF k > Len(RULES) THEN [score |-> Min(score, 100), reasons |-> reasons]
    ELSE IF rule_fires(row, RULES[k])
    THEN rules_from(row, k + 1, score + RULES[k].score,
                    Append(reasons, [text |-> RULES[k].reason,
                                     severity |-> RULES[k].severity]))
    ELSE rules_from(row, k + 1, score, reasons)

rule_based_risk(row) == rules_from(row, 1, 0, << >>)

-----------------------------------------------------------------------------
(* models/hybrid_risk.py.  Weights and the probability are in hundredths. *)

DEFAULT_RULE_WEIGHT == 60
DEFAULT_ML_WEIGHT == 40
DEFAULT_HIGH_THRESHOLD == 70
DEFAULT_MEDIUM_THRESHOLD == 40

\* the config argument: None (given = FALSE) or a dict d
Configs ==
    { [given |-> FALSE, d |-> << >>],
      [given |-> TRUE, d |-> << >>],
      [given |-> TRUE, d |-> [risk_weights |-> [rule_weight |-> 30, ml_weight |-> 70],
                              risk_thresholds |-> [high |-> 70, medium |-> 40]]],
      [given |-> TRUE, d |-> [risk_weights |-> [rule_weight |-> 0, ml_weight |-> 100],
                              risk_thresholds |-> [high |-> 80, medium |-> 50]]],
      [given |-> TRUE, d |-> [risk_thresholds |-> [high |-> 50]]],
      [given |-> TRUE, d |-> [risk_weights |-> [rule_weight |-> 100]]],
      [given |-> TRUE, d |-> [risk_weights |-> [rule_weight |-> -50, ml_weight |-> 25],
                              risk_thresholds |-> [medium |-> 0]]] }

\* ml_probability: 0.0, 0.25, 0.5, 0.75, 1.0, which doubles hold exactly, and
\* 0.29, 0.85, 0.9, which they do not
Probabilities == {0, 25, 50, 75, 100, 29, 85, 90}

\* the records hybrid_risk_score is applied to: each field absent, 0 or MaxCount
HybridRows == {row \in Rows : \A f \in DOMAIN row : row[f] \in {0, MaxCount}}

\* "if config:" is false for None and for the empty dict
Truthy(config) == config.given /\ DOMAIN config.d # {}

Setting(config, section, key, default) ==
    IF Truthy(config) THEN Get(Get(config.d, section, << >>), key, default) ELSE default

\* int(n / d): truncation towards zero
IntPart(n, d) == IF n >= 0 THEN n \div d ELSE -((-n) \div d)

\* rule_weight * rule_score + ml_weight * (ml_probability * 100) is computed in
\* doubles.  Where the decimal sum is a whole number n, the double can lie just
\* below it, and int() then gives n - 1 (0.7 * (0.9 * 100) is
\* 62.99999999999999, 0.29 * 100 is 28.999999999999996).  These are the inputs
\* for which it does, among the weights of Configs, the scores the rule engine
\* returns and the probabilities that are whole hundredths.
double_sum_below(rule_weight, rule_score, ml_weight, ml_probability) ==
    \/ /\ ml_weight = 100
       /\ rule_weight * rule_score = 0
       /\ ml_probability \in {29, 57, 58}
    \/ <<rule_weight, rule_score, ml_weight, ml_probability>>
          \in {<<30, 0, 70, 90>>, <<30, 15, 70, 85>>,
               <<-50, 15, 25, 58>>, <<-50, 25, 25, 58>>}

\* max(0, min(100, int(rule_weight * rule_score + ml_weight * (ml_probability * 100))))
final_score(rule_weight, rule_score, ml_weight, ml_probability) ==
    Max(0, Min(100,
        IntPart(rule_weight * rule_score + ml_weight * ml_probability, 100)
            - (IF double_sum_below(rule_weight, rule_score, ml_weight, ml_probability)
               THEN 1 ELSE 0)))

\* mutant: a score equal to a threshold falls in the level below
risk_level_strict(score, high_threshold, medium_threshold) ==
    IF score > high_threshold THEN "High"
    ELSE IF score > medium_threshold THEN "Medium"
    ELSE "Low"

risk_level(score, high_threshold, medium_threshold) ==
    IF score >= high_threshold THEN "High"
    ELSE IF score >= medium_threshold THEN "Medium"
    ELSE "Low"

\* mutant: the defaults are reported whatever the config
weights_used_default(rule_weight, ml_weight) ==
    [rule_weight |-> DEFAULT_RULE_WEIGHT, ml_weight |-> DEFAULT_ML_WEIGHT]

\* the "weights_used" entry of the result
weights_used(rule_weight, ml_weight) ==
    [rule_weight |-> rule_weight, ml_weight |-> ml_weight]

hybrid_risk_score(row, ml_probability, config) ==
    LET rule_weight == Setting(config, "risk_weights", "rule_weight", DEFAULT_RULE_WEIGHT)
        ml_weight == Setting(config, "risk_weights", "ml_weight", DEFAULT_ML_WEIGHT)
        high_threshold == Setting(config, "risk_thresholds", "high", DEFAULT_HIGH_THRESHOLD)
        medium_threshold ==
            Setting(config, "risk_thresholds", "medium", DEFAULT_MEDIUM_THRESHOLD)
        rules == rule_based_risk(row)
        score == final_score(rule_weight, rules.score, ml_weight, ml_probability)
    IN [risk_score |-> score,
        risk_level |-> risk_level(score, high_threshold, medium_threshold),
        reasons |-> rules.reasons,
        ml_probability |-> ml_probability,
        rule_score |-> rules.score,
        weights_used |-> weights_used(rule_weight, ml_weight)]

-----------------------------------------------------------------------------
(* decision_support/what_if.py *)

SCENARIOS ==
    [add_resource |->
        [description |-> "Add one resource to the project",
         effects |-> [no_resource_available |-> -1, total_blocked_events |-> -1]],
     reduce_dependencies |->
        [description |-> "Reduce task coupling through refactoring",
         effects |-> [dependencies |-> -2, total_blocked_events |-> -1]],
     improve_process |->
        [description |-> "Implement quality improvements and better monitoring",
         effects |-> [rework_count |-> -1, max_progress_gap |-> -2]]]

\* the scenario names callers pass: the known ones and one that is not
ScenarioNames == DOMAIN SCENARIOS \cup {"hire_contractor"}

\* mutant: the delta is applied with the opposite sign
apply_delta_reversed(current, delta) == Max(0, current - delta)

\* mutant: the delta is applied without the floor
apply_delta_unfloored(current, delta) == current + delta

\* max(0, current + delta)
apply_delta(current, delta) == Max(0, current + delta)

\* mutant: an unknown scenario leaves the record as it is
unknown_scenario_ignored(row, scenario) == Return(row)

\* raise ValueError(f"Unknown scenario '{scenario}'. Valid: {valid}")
unknown_scenario(row, scenario) == Raise("ValueError", scenario)

\* mutant: simulated is the caller's Series itself
row_alias(row) == [shared |-> TRUE, fields |-> row]

\* row.copy(): a new Series with the fields of row, not shared with the caller
row_copy(row) == [shared |-> FALSE, fields |-> row]

\* the loop over effects.items(), assigning into the Series with these fields
apply_effects(fields, effects) ==
    [f \in DOMAIN fields |->
        IF f \in DOMAIN effects THEN apply_delta(fields[f], effects[f])
        ELSE fields[f]]

simulate_what_if(row, scenario) ==
    IF scenario \notin DOMAIN SCENARIOS THEN unknown_scenario(row, scenario)
    ELSE Return(apply_effects(row_copy(row).fields, SCENARIOS[scenario].effects))

\* the caller's Series once simulate_what_if has returned or raised: changed
\* only if the Series the effects were assigned into is shared with the caller
row_after(row, scenario) ==
    IF scenario \in DOMAIN SCENARIOS /\ row_copy(row).shared
    THEN apply_effects(row, SCENARIOS[scenario].effects)
    ELSE row

estimate_scenario_impact(row, scenario) ==
    IF scenario \notin DOMAIN SCENARIOS
    THEN Return([error |-> scenario])
    ELSE LET effects == SCENARIOS[scenario].effects IN
         Return([scenario |-> scenario,
                 description |-> SCENARIOS[scenario].description,
                 feature_impacts |->
                    [f \in DOMAIN effects |->
                        [original |-> Get(row, f, 0),
                         new |-> apply_delta(Get(row, f, 0), effects[f]),
                         change |-> apply_delta(Get(row, f, 0), effects[f])
                                       - Get(row, f, 0)]]])

-----------------------------------------------------------------------------
(* The scoring functions as a state machine: each action is one call, on   *)
(* inputs drawn from the sets above; the functions keep no state, so a     *)
(* behaviour is a single call.                                             *)

NoSimulator ==
    /\ rng = 0 /\ seed = 0 /\ noise = << >> /\ project = 0 /\ driver = "none"
    /\ max_days = 0 /\ tasks = << >> /\ resources = << >> /\ logs = << >>
    /\ delayed_logs = << >> /\ day = 0 /\ iter = 0 /\ pc = "idle" /\ runNo = 0
    /\ prev = NoPrev /\ other = NoOther

ScoreInit == NoSimulator /\ ScoreIdle

CallRuleBasedRisk ==
    /\ fn = "none"
    /\ \E row \in Rows :
         /\ fn' = "rule_based_risk"
         /\ arg' = [row |-> row]
         /\ out' = Return(rule_based_risk(row))
    /\ UNCHANGED simVars

CallHybridRiskScore ==
    /\ fn = "none"
    /\ \E row \in HybridRows, p \in Probabilities, config \in Configs :
         /\ fn' = "hybrid_risk_score"
         /\ arg' = [row |-> row, ml_probability |-> p, config |-> config]
         /\ out' = Return(hybrid_risk_score(row, p, config))
    /\ UNCHANGED simVars

CallSimulateWhatIf ==
    /\ fn = "none"
    /\ \E row \in Rows, scenario \in ScenarioNames :
         /\ fn' = "simulate_what_if"
         /\ arg' = [row |-> row, scenario |-> scenario,
                     row_after |-> row_after(row, scenario)]
         /\ out' = simulate_what_if(row, scenario)
    /\ UNCHANGED simVars

CallEstimateScenarioImpact ==
    /\ fn = "none"
    /\ \E row \in Rows, scenario \in ScenarioNames :
         /\ fn' = "estimate_scenario_impact"
         /\ arg' = [row |-> row, scenario |-> scenario]
         /\ out' = estimate_scenario_impact(row, scenario)
    /\ UNCHANGED simVars

ScoreNext ==
    \/ CallRuleBasedRisk
    \/ CallHybridRiskScore
    \/ CallSimulateWhatIf
    \/ CallEstimateScenarioImpact

ScoreSpec == ScoreInit /\ [][ScoreNext]_vars

-----------------------------------------------------------------------------
(* The feature engine as a state machine: each action is one call on       *)
(* tables drawn from EventTables and TaskTables, with no simulator behind  *)
(* them.                                                                   *)

CallComputeBlockFeatures ==
    /\ pc = "idle" /\ fn = "none"
    /\ \E events \in EventTables :
         /\ fn' = "compute_block_features"
         /\ arg' = [events |-> events]
         /\ out' = Return(compute_block_features(events))
    /\ UNCHANGED simVars

CallComputeProgressFeatures ==
    /\ pc = "idle" /\ fn = "none"
    /\ \E events \in EventTables :
         /\ fn' = "compute_progress_features"
         /\ arg' = [events |-> events]
         /\ out' = Return(compute_progress_features(events))
    /\ UNCHANGED simVars

CallComputeStagnationFeatures ==
    /\ pc = "idle" /\ fn = "none"
    /\ \E events \in EventTables :
         /\ fn' = "compute_stagnation_features"
         /\ arg' = [events |-> events]
         /\ out' = Return(compute_stagnation_features(events))
    /\ UNCHANGED simVars

CallBuildTaskFeatures ==
    /\ pc = "idle" /\ fn = "none"
    /\ \E tasks_table \in TaskTables, events \in EventTables :
         /\ fn' = "build_task_features"
         /\ arg' = [tasks |-> tasks_table, events |-> events]
         /\ out' = build_task_features(tasks_table, events)
    /\ UNCHANGED simVars

FeatureNext ==
    \/ CallComputeBlockFeatures
    \/ CallComputeProgressFeatures
    \/ CallComputeStagnationFeatures
    \/ CallBuildTaskFeatures

FeatureSpec == ScoreInit /\ [][FeatureNext]_vars

\* the feature engine on the tables of the model and on the tables a simulator
\* run hands over
PipelineInit == Init \/ ScoreInit

PipelineNext == Next \/ FeatureNext

PipelineSpec == PipelineInit /\ [][PipelineNext]_vars

-----------------------------------------------------------------------------
(* Properties of the scoring functions *)

\* the rules whose field value, 0 when absent, reaches the threshold
Fired(row) ==
    {k \in 1..Len(RULES) :
        (IF RULES[k].field \in DOMAIN row THEN row[RULES[k].field] ELSE 0)
            >= RULES[k].threshold}

RECURSIVE SumScores(_)
SumScores(K) ==
    IF K = {} THEN 0
    ELSE LET k == CHOOSE x \in K : TRUE IN RULES[k].score + SumScores(K \ {k})

ExactThresholds ==
    [total_blocked_events |-> 3, dependencies |-> 2, no_resource_available |-> 1,
     rework_count |-> 2, max_progress_gap |-> 4]

\* C5 (rule engine result): rule_based_risk returns score = min(100, sum of the
\* contributions of exactly the rules whose field value, 0 when absent, is >=
\* the threshold) and one {text, severity} reason per fired rule in declaration
\* order; so 0 <= score <= 100, the record meeting all five thresholds exactly
\* scores 90 with 5 reasons, and the empty record scores 0 with no reasons.
C5_RuleEngine ==
    fn = "rule_based_risk" =>
        LET row == arg.row
            res == out.value
            K == Fired(row)
        IN /\ res.score = Min(100, SumScores(K))
           /\ 0 <= res.score /\ res.score <= 100
           /\ Len(res.reasons) = Cardinality(K)
           /\ \A k \in K :
                 res.reasons[Cardinality({j \in K : j <= k})] =
                     [text |-> RULES[k].reason, severity |-> RULES[k].severity]
           /\ row = ExactThresholds => (res.score = 90 /\ Len(res.reasons) = 5)
           /\ DOMAIN row = {} => (res.score = 0 /\ res.reasons = << >>)

\* the record that meets all five thresholds exactly has been scored
C5_Witness ==
    /\ fn = "rule_based_risk"
    /\ arg.row = ExactThresholds
    /\ out.value.score = 90

\* the value the config supplies for a key, the default when it supplies none
Applied(config, section, key, default) ==
    IF /\ config.given
       /\ section \in DOMAIN config.d
       /\ key \in DOMAIN config.d[section]
    THEN config.d[section][key]
    ELSE default

\* C6 (hybrid score): risk_score = floor(rule_weight * rule_score + ml_weight *
\* ml_probability * 100) clamped to [0,100], with the rule engine's score of
\* the record and the weights of the config when supplied, 0.6/0.4 otherwise;
\* the result lies in [0,100] for any weights; rule_score 0 and probability 0.5
\* under the default weights give 20.
C6_HybridScore ==
    fn = "hybrid_risk_score" =>
        LET rw == Applied(arg.config, "risk_weights", "rule_weight", 60)
            mw == Applied(arg.config, "risk_weights", "ml_weight", 40)
            rs == rule_based_risk(arg.row).score
            combined == (rw * rs + mw * arg.ml_probability) \div 100
            res == out.value
        IN /\ res.risk_score =
                 (IF combined < 0 THEN 0 ELSE IF combined > 100 THEN 100 ELSE combined)
           /\ 0 <= res.risk_score /\ res.risk_score <= 100
           /\ (rs = 0 /\ arg.ml_probability = 50 /\ ~arg.config.given)
                 => res.risk_score = 20

\* C7 (hybrid level): risk_level is "High" exactly when risk_score >= the high
\* threshold, "Medium" exactly when medium threshold <= risk_score < high
\* threshold, and "Low" otherwise, with the thresholds of the config when
\* supplied and 70/40 otherwise.
C7_HybridLevel ==
    fn = "hybrid_risk_score" =>
        LET high == Applied(arg.config, "risk_thresholds", "high", 70)
            medium == Applied(arg.config, "risk_thresholds", "medium", 40)
            res == out.value
        IN /\ res.risk_level = "High" <=> res.risk_score >= high
           /\ res.risk_level = "Medium"
                 <=> (medium <= res.risk_score /\ res.risk_score < high)
           /\ res.risk_level = "Low"
                 <=> (res.risk_score < high /\ res.risk_score < medium)

\* a score equal to the high threshold of a config has been classified
C7_Witness ==
    /\ fn = "hybrid_risk_score"
    /\ arg.config.given
    /\ "risk_thresholds" \in DOMAIN arg.config.d
    /\ out.value.risk_score = Applied(arg.config, "risk_thresholds", "high", 70)
    /\ out.value.risk_level = "High"

ReportsWeights ==
    /\ out.value.rule_score = rule_based_risk(arg.row).score
    /\ out.value.weights_used.rule_weight =
          Applied(arg.config, "risk_weights", "rule_weight", 60)
    /\ out.value.weights_used.ml_weight =
          Applied(arg.config, "risk_weights", "ml_weight", 40)

\* C8 as stated: the result of hybrid_risk_score reports the rule_score
\* component, the weights applied, and the high and medium thresholds applied,
\* in an entry next to the score, level, reasons, probability, rule score and
\* weights.
C8_ReportsThresholds ==
    fn = "hybrid_risk_score" =>
        /\ ReportsWeights
        /\ DOMAIN out.value \ {"risk_score", "risk_level", "reasons", "ml_probability",
                               "rule_score", "weights_used"} # {}

\* C8 (auditability, amended): the result of hybrid_risk_score reports the
\* rule_score component and the rule and ML weights actually applied (the
\* config's when it supplies them, the defaults otherwise); its entries are
\* risk_score, risk_level, reasons, ml_probability, rule_score and weights_used,
\* and none reports the thresholds.
C8_Auditability ==
    fn = "hybrid_risk_score" =>
        /\ ReportsWeights
        /\ DOMAIN out.value = {"risk_score", "risk_level", "reasons", "ml_probability",
                               "rule_score", "weights_used"}

\* a config supplying its own weights and thresholds has been applied to a
\* record that fires rules
C8_Witness ==
    /\ fn = "hybrid_risk_score"
    /\ arg.config.given
    /\ DOMAIN arg.config.d = {"risk_weights", "risk_thresholds"}
    /\ out.value.weights_used.rule_weight = 30
    /\ out.value.rule_score > 0

KnownScenario == arg.scenario \in DOMAIN SCENARIOS

\* C9 (what-if non-negativity): for every known scenario and feature record,
\* every field the scenario perturbs is >= 0 in the result of simulate_what_if,
\* a field at 0 staying 0, and every "new" value of estimate_scenario_impact is
\* >= 0.
C9_NonNegative ==
    /\ (fn = "simulate_what_if" /\ KnownScenario) =>
          /\ out.kind = "return"
          /\ \A f \in DOMAIN SCENARIOS[arg.scenario].effects \cap DOMAIN arg.row :
                /\ f \in DOMAIN out.value
                /\ out.value[f] >= 0
                /\ arg.row[f] = 0 => out.value[f] = 0
    /\ (fn = "estimate_scenario_impact" /\ KnownScenario) =>
          \A f \in DOMAIN SCENARIOS[arg.scenario].effects :
                out.value.feature_impacts[f].new >= 0

\* reduce_dependencies has been applied to a record with one dependency block
\* and no blocked event: both fields end at 0
C9_Witness ==
    /\ fn = "simulate_what_if"
    /\ arg.scenario = "reduce_dependencies"
    /\ {"dependencies", "total_blocked_events"} \subseteq DOMAIN arg.row
    /\ arg.row["dependencies"] = 1
    /\ arg.row["total_blocked_events"] = 0
    /\ out.value["dependencies"] = 0
    /\ out.value["total_blocked_events"] = 0

\* C10 (unknown scenario): for a name that is not in the scenario table,
\* simulate_what_if raises a ValueError naming the scenario and returns no
\* record, and estimate_scenario_impact returns an error result without
\* feature impacts.
C10_UnknownScenario ==
    /\ (fn = "simulate_what_if" /\ ~KnownScenario) =>
          /\ out.kind = "raise"
          /\ out.exception = "ValueError"
          /\ out.names = arg.scenario
    /\ (fn = "estimate_scenario_impact" /\ ~KnownScenario) =>
          /\ out.kind = "return"
          /\ "error" \in DOMAIN out.value
          /\ out.value.error = arg.scenario
          /\ "feature_impacts" \notin DOMAIN out.value

\* simulate_what_if has been called with an unknown name on a record that a
\* known scenario would change
C10_Witness ==
    /\ fn = "simulate_what_if"
    /\ arg.scenario = "hire_contractor"
    /\ DOMAIN arg.row = Fields
    /\ \A f \in Fields : arg.row[f] = MaxCount
    /\ out.kind = "raise"

\* C11 as stated: the reduce_dependencies scenario lowers the record's
\* dependencies field by exactly 1: simulate_what_if applied to a record with
\* dependencies = d >= 1 returns dependencies = d - 1 (3 becomes 2).
C11_ReduceByOne ==
    (/\ fn = "simulate_what_if"
     /\ arg.scenario = "reduce_dependencies"
     /\ "dependencies" \in DOMAIN arg.row
     /\ arg.row["dependencies"] >= 1)
        => /\ out.kind = "return"
           /\ out.value["dependencies"] = arg.row["dependencies"] - 1

\* the record of the spec's add_resource example
AddResourceExample == [no_resource_available |-> 2, total_blocked_events |-> 5]

\* C12 (what-if effect and frame): for a known scenario, simulate_what_if
\* returns a record with the fields of the input in which each field named by
\* the scenario equals max(0, original + delta) and every other field equals
\* the original; the caller's record is unchanged after the call; add_resource
\* on {no_resource_available: 2, total_blocked_events: 5} gives 1 and 4; and
\* estimate_scenario_impact reports as "new" the same value for each field the
\* scenario names, taking a field absent from the record as 0.
C12_EffectAndFrame ==
    /\ (fn = "simulate_what_if" /\ KnownScenario) =>
          LET effects == SCENARIOS[arg.scenario].effects IN
          /\ out.kind = "return"
          /\ DOMAIN out.value = DOMAIN arg.row
          /\ \A f \in DOMAIN arg.row :
                out.value[f] =
                    IF f \notin DOMAIN effects THEN arg.row[f]
                    ELSE IF arg.row[f] + effects[f] >= 0 THEN arg.row[f] + effects[f]
                    ELSE 0
          /\ arg.row_after = arg.row
          /\ (arg.row = AddResourceExample /\ arg.scenario = "add_resource") =>
                out.value = [no_resource_available |-> 1, total_blocked_events |-> 4]
          /\ \A f \in DOMAIN effects \cap DOMAIN arg.row :
                estimate_scenario_impact(arg.row, arg.scenario)
                    .value.feature_impacts[f].new = out.value[f]
    /\ (fn = "estimate_scenario_impact" /\ KnownScenario) =>
          LET effects == SCENARIOS[arg.scenario].effects IN
          /\ DOMAIN out.value.feature_impacts = DOMAIN effects
          /\ \A f \in DOMAIN effects :
                LET original == IF f \in DOMAIN arg.row THEN arg.row[f] ELSE 0 IN
                /\ out.value.feature_impacts[f].original = original
                /\ out.value.feature_impacts[f].new =
                      (IF original + effects[f] >= 0 THEN original + effects[f] ELSE 0)
                /\ f \in DOMAIN arg.row =>
                      out.value.feature_impacts[f].new =
                          simulate_what_if(arg.row, arg.scenario).value[f]

\* add_resource has been applied to a record holding the two fields of the
\* example and a field the scenario does not name
C12_Witness ==
    /\ fn = "simulate_what_if"
    /\ arg.scenario = "add_resource"
    /\ arg.row = [no_resource_available |-> 2, total_blocked_events |-> 5,
                  rework_count |-> 3]
    /\ out.value = [no_resource_available |-> 1, total_blocked_events |-> 4,
                    rework_count |-> 3]
    /\ arg.row_after = arg.row

-----------------------------------------------------------------------------
(* Properties of the feature engine *)

\* the rows of this event type that an events table has for task t
RowsOf(events, type, t) ==
    {k \in 1..Len(events) : events[k].event_type = type /\ events[k].task_id = t}

FromSimulator == pc # "idle"

BuiltFeatures == fn = "build_task_features" /\ out.kind = "return"

\* C13 (block-total identity): in every row compute_block_features makes and
\* in every feature record build_task_features returns, dependencies +
\* no_resource_available + skill_mismatch + external_block + random_disruption
\* equals total_blocked_events; and when the events table is the one a
\* simulator run hands over, that total is the number of blocked events the
\* table has for the task.
C13_BlockTotal ==
    /\ fn = "compute_block_features" =>
          \A t \in DOMAIN out.value.rows :
              LET r == out.value.rows[t] IN
              r["dependencies"] + r["no_resource_available"] + r["skill_mismatch"]
                  + r["external_block"] + r["random_disruption"]
                = r["total_blocked_events"]
    /\ BuiltFeatures =>
          \A i \in 1..Len(out.value) :
              LET r == out.value[i] IN
              /\ r["dependencies"] + r["no_resource_available"] + r["skill_mismatch"]
                    + r["external_block"] + r["random_disruption"]
                  = r["total_blocked_events"]
              /\ FromSimulator =>
                    r["total_blocked_events"] =
                        Cardinality(RowsOf(arg.events, "blocked", r["task_id"]))

\* the features of a simulator run have been built, and a task has blocked
\* events of two reasons, a random disruption among them
C13_Witness ==
    /\ FromSimulator
    /\ BuiltFeatures
    /\ \E i \in 1..Len(out.value) :
          /\ out.value[i]["random_disruption"] >= 1
          /\ out.value[i]["total_blocked_events"] >= 3
          /\ Cardinality({c \in BLOCK_COLUMNS : out.value[i][c] >= 1}) >= 2

\* the days of the progress events an events table has for task t
ProgressDays(events, t) == {events[k].day : k \in RowsOf(events, "progress", t)}

\* the largest difference between two days of D that are consecutive in
\* ascending order, 0 when D has no two days
LargestGap(D) ==
    LET consecutive == {p \in D \X D :
                           p[1] < p[2] /\ ~\E c \in D : p[1] < c /\ c < p[2]}
    IN IF consecutive = {} THEN 0
       ELSE CHOOSE g \in {p[2] - p[1] : p \in consecutive} :
               \A p \in consecutive : g >= p[2] - p[1]

\* C14 (stagnation): the max_progress_gap of a task, in the table of
\* compute_stagnation_features and in the records build_task_features returns,
\* is the largest difference between consecutive days of the task's progress
\* events in ascending day order, whatever the order of the rows of the events
\* table, and 0 when the task has at most one progress event; progress events
\* at days 1, 3, 5 and 15 give max_progress_gap = 10 and progress_events = 4;
\* and max_progress_gap <= last_progress_day - first_progress_day.
C14_Stagnation ==
    /\ fn = "compute_stagnation_features" =>
          /\ DOMAIN out.value.rows =
                {arg.events[k].task_id : k \in {j \in 1..Len(arg.events) :
                                                  arg.events[j].event_type = "progress"}}
          /\ \A t \in DOMAIN out.value.rows :
                /\ out.value.rows[t].max_progress_gap =
                      LargestGap(ProgressDays(arg.events, t))
                /\ Cardinality(RowsOf(arg.events, "progress", t)) <= 1 =>
                      out.value.rows[t].max_progress_gap = 0
    /\ BuiltFeatures =>
          \A i \in 1..Len(out.value) :
              LET r == out.value[i]
                  mine == RowsOf(arg.events, "progress", r["task_id"])
                  D == ProgressDays(arg.events, r["task_id"])
              IN /\ r["max_progress_gap"] = LargestGap(D)
                 /\ Cardinality(mine) <= 1 => r["max_progress_gap"] = 0
                 /\ r["progress_events"] = Cardinality(mine)
                 /\ r["max_progress_gap"]
                       <= r["last_progress_day"] - r["first_progress_day"]
                 /\ (D = {1, 3, 5, 15} /\ Cardinality(mine) = 4) =>
                       (r["max_progress_gap"] = 10 /\ r["progress_events"] = 4)

\* the features have been built from a table whose rows are the progress
\* events of T1 at days 15, 1, 5, 3, in this order
C14_Witness ==
    /\ BuiltFeatures
    /\ ~FromSimulator
    /\ Len(arg.events) = 4
    /\ \A k \in 1..4 : arg.events[k].task_id = "T1"
                        /\ arg.events[k].event_type = "progress"
    /\ <<arg.events[1].day, arg.events[2].day, arg.events[3].day, arg.events[4].day>>
          = <<15, 1, 5, 3>>
    /\ \E i \in 1..Len(out.value) :
          /\ out.value[i]["task_id"] = "T1"
          /\ out.value[i]["max_progress_gap"] = 10
          /\ out.value[i]["progress_events"] = 4

\* C15 as stated (one zero-filled record per task): build_task_features
\* returns exactly one feature record for each row of the tasks table, in the
\* order of the table; a task with no blocked, progress or rework event has 0
\* in each corresponding count and gap feature; every count and gap feature is
\* >= 0.
C15_OneRecordPerTask ==
    fn = "build_task_features" =>
        /\ out.kind = "return"
        /\ Len(out.value) = Len(arg.tasks)
        /\ \A i \in 1..Len(out.value) :
              LET r == out.value[i]
                  t == arg.tasks[i].task_id
              IN /\ r["task_id"] = t
                 /\ RowsOf(arg.events, "blocked", t) = {} =>
                       /\ r["total_blocked_events"] = 0
                       /\ \A c \in BLOCK_COLUMNS : r[c] = 0
                 /\ RowsOf(arg.events, "progress", t) = {} =>
                       (r["progress_events"] = 0 /\ r["max_progress_gap"] = 0)
                 /\ RowsOf(arg.events, "rework", t) = {} => r["rework_count"] = 0
                 /\ \A c \in BLOCK_COLUMNS \cup
                        {"total_blocked_events", "progress_events", "rework_count",
                         "max_progress_gap"} : r[c] >= 0

\* C16 as stated (rework count): in every feature record build_task_features
\* returns, rework_count equals the number of rework events the events table
\* has for the task, 0 if it has none, whether or not the task has a progress
\* event in the table.
C16_ReworkCount ==
    BuiltFeatures =>
        \A i \in 1..Len(out.value) :
            out.value[i]["rework_count"] =
                Cardinality(RowsOf(arg.events, "rework", out.value[i]["task_id"]))

-----------------------------------------------------------------------------
(* Properties of the run loop and of the life of a task *)

EveryTaskCompleted == \A i \in 1..Len(tasks) : tasks[i].status = "completed"

\* C17 as stated (the simulator never fails mid-run): for any constructed tasks
\* and resources, a task whose dependency list names an id outside the task
\* set and an empty resource list included, and any noise configuration, no
\* simulate_day raises, and a run that returns with a task not COMPLETED has
\* simulated max_days days and left the task in a non-COMPLETED status.
C17_NeverRaises ==
    /\ pc # "raised"
    /\ (pc = "returned" /\ ~EveryTaskCompleted) =>
          /\ day = max_days
          /\ \A i \in 1..Len(tasks) :
                tasks[i].status \in {"not_started", "in_progress", "blocked", "completed"}

C18_AtReturn ==
    /\ pc = "returned" =>
          /\ day = iter
          /\ day <= max_days
          /\ EveryTaskCompleted \/ day = max_days
    /\ (pc = "running" /\ iter >= 1) => (~EveryTaskCompleted /\ iter < max_days)

C18_Step ==
    (pc = "running" /\ day' # day) =>
        /\ day' = day + 1
        /\ iter' = iter + 1
        /\ iter >= 1 => ~EveryTaskCompleted

\* C18 (run loop): run(max_days) always ends (by returning, or by the
\* exception of a simulate_day); it simulates days 1, 2, ... one after the
\* other, and returns after the first day at whose end every task is COMPLETED
\* or after max_days days if there is no such day, so at return the day counter
\* is <= max_days, and no day is simulated after a day at whose end every task
\* was COMPLETED.
C18_RunLoop ==
    /\ []C18_AtReturn
    /\ [][C18_Step]_vars
    /\ (pc = "running" ~> (pc = "returned" \/ pc = "raised"))

\* a run of several tasks has returned before max_days, on the day the last
\* task completed
C18_Witness ==
    /\ pc = "returned"
    /\ Len(tasks) >= 2
    /\ EveryTaskCompleted
    /\ day >= 2
    /\ day < max_days
    /\ \E i \in 1..Len(tasks) : tasks[i].actual_end = day

\* the simulator's fields before the i-th task is processed on the next day
RECURSIVE BeforeTask(_)
BeforeTask(i) ==
    IF i = 1 THEN flush_delayed(Self, day + 1)
    ELSE process_task(BeforeTask(i - 1), i - 1, day + 1)

\* the entries for this task in the visible log and in the delayed queue
EntriesOf(ls, dls, id) ==
    Cardinality({k \in 1..Len(ls) : ls[k].task_id = id})
        + Cardinality({k \in 1..Len(dls) : dls[k].task_id = id})

C19_Skipped ==
    pc \in {"constructed", "running"} =>
        \A i \in 1..Len(tasks) :
            (~BeforeTask(i).raised /\ BeforeTask(i).tasks[i].status = "completed")
                => process_task(BeforeTask(i), i, day + 1) = BeforeTask(i)

C19_Step ==
    \A i \in 1..Len(tasks) :
        (runNo' = runNo /\ tasks[i].status = "completed") =>
            /\ tasks'[i] = tasks[i]
            /\ EntriesOf(logs', delayed_logs', tasks[i].task_id)
                  = EntriesOf(logs, delayed_logs, tasks[i].task_id)
            /\ \A r \in 1..Len(resources') :
                  resources'[r].assigned_task # tasks[i].task_id

\* C19 (COMPLETED is terminal): once a task is COMPLETED, a simulated day
\* changes none of its status, progress, actual_start and actual_end, and adds
\* no entry for it to the log or the delayed queue; when its turn comes in the
\* loop of a day, nothing at all changes: no resource is assigned, no noise is
\* drawn (so no external block and no rework), no event is generated.
C19_CompletedTerminal == []C19_Skipped /\ [][C19_Step]_vars

\* under a noise configuration with external blocks, a task has been
\* COMPLETED since an earlier day while another task is still being worked on
C19_Witness ==
    /\ pc \in {"constructed", "running"}
    /\ noise.external_block_prob > 0
    /\ \E i \in 1..Len(tasks) :
          /\ tasks[i].status = "completed"
          /\ tasks[i].actual_end + 2 <= day
    /\ \E j \in 1..Len(tasks) : tasks[j].status # "completed"

StartEntries(id) ==
    Cardinality({k \in 1..Len(logs) :
                    logs[k].task_id = id /\ logs[k].event_type = "start"})
        + Cardinality({k \in 1..Len(delayed_logs) :
                    delayed_logs[k].task_id = id
                    /\ delayed_logs[k].event_type = "start"})

C20_Started ==
    \A i \in 1..Len(tasks) :
        /\ StartEntries(tasks[i].task_id) <= 1
        /\ (tasks[i].status = "in_progress" \/ tasks[i].progress > 0) =>
              /\ tasks[i].actual_start # NoDay
              /\ noise.log_drop_prob = 0 => StartEntries(tasks[i].task_id) = 1

C20_Step ==
    \A i \in 1..Len(tasks) :
        /\ (runNo' = runNo /\ tasks[i].actual_start # NoDay) =>
              tasks'[i].actual_start = tasks[i].actual_start
        /\ (/\ runNo' = runNo
            /\ tasks[i].status \in {"not_started", "blocked"}
            /\ tasks[i].progress = 0
            /\ tasks[i].actual_start = NoDay
            /\ tasks'[i].status = "in_progress" \/ tasks'[i].progress > 0) =>
              tasks'[i].actual_start = day'

\* C20 as stated (first activation): on the first day a task passes the
\* external-block and dependency checks, its actual_start is set to that day
\* and one start event is generated for it, also when the task was BLOCKED on
\* earlier days before ever starting; so a task that is IN_PROGRESS or has
\* made progress has its actual_start set and, when no log entry is dropped,
\* exactly one start entry in the log or the delayed queue; no task ever has a
\* second start entry, and actual_start never changes once set.
C20_FirstActivation == []C20_Started /\ [][C20_Step]_vars

-----------------------------------------------------------------------------
(* Properties of the resources within a day *)

\* the resources no task has taken yet
FreeResources(rs) == {r \in 1..Len(rs) : rs[r].assigned_task = "None"}

\* the i-th task gets as far as the resource allocation when processed in s
\* on the next day: it is not COMPLETED, the external-block draw fails and all
\* its dependencies are COMPLETED
ReachesAllocation(s, i) ==
    /\ ~s.raised
    /\ s.tasks[i].status # "completed"
    /\ ~(Rand(s.rng) * 100 < noise.external_block_prob * 65537)
    /\ DepsDone(s.tasks, i)

\* the entries with this reason for this task, visible or delayed
ReasonEntries(s, id, reason) ==
    Cardinality({k \in 1..Len(s.logs) :
                    s.logs[k].task_id = id /\ s.logs[k].reason = reason})
        + Cardinality({k \in 1..Len(s.delayed_logs) :
                    s.delayed_logs[k].task_id = id /\ s.delayed_logs[k].reason = reason})

\* what the allocation does for the i-th task, from s to t
C21_Allocation(s, t, i) ==
    IF FreeResources(s.resources) = {}
    THEN /\ t.tasks[i].status = "blocked"
         /\ t.tasks[i].progress = s.tasks[i].progress
         /\ t.resources = s.resources
         /\ noise.log_drop_prob = 0 =>
               ReasonEntries(t, s.tasks[i].task_id, "no_resource_available")
                   = ReasonEntries(s, s.tasks[i].task_id, "no_resource_available") + 1
    ELSE LET first == CHOOSE r \in FreeResources(s.resources) :
                          \A q \in FreeResources(s.resources) : r <= q
         IN /\ t.tasks[i].status # "blocked"
            /\ t.resources = [s.resources EXCEPT ![first].assigned_task = s.tasks[i].task_id]
            /\ ReasonEntries(t, s.tasks[i].task_id, "no_resource_available")
                   = ReasonEntries(s, s.tasks[i].task_id, "no_resource_available")

\* C21 (greedy resource acquisition in creation order): on every day the tasks
\* are processed in creation order, and a task that passes the block and
\* dependency checks takes the first resource in list order that no earlier
\* task took that day, whatever its skill; it becomes BLOCKED with reason
\* no_resource_available, its progress unchanged, exactly when no resource is
\* left.
C21_GreedyAcquisition ==
    pc \in {"constructed", "running"} =>
        \A i \in 1..Len(tasks) :
            ReachesAllocation(BeforeTask(i), i) =>
                C21_Allocation(BeforeTask(i),
                               process_task(BeforeTask(i), i, day + 1), i)

\* a task is about to take the first resource, of another skill, while a
\* later resource of its own skill is free
C21_Witness ==
    /\ pc \in {"constructed", "running"}
    /\ \E i \in 1..Len(tasks) :
          /\ ReachesAllocation(BeforeTask(i), i)
          /\ Len(resources) >= 2
          /\ FreeResources(BeforeTask(i).resources) = 1..Len(resources)
          /\ resources[1].skill_type # tasks[i].required_skill
          /\ resources[2].skill_type = tasks[i].required_skill
          /\ process_task(BeforeTask(i), i, day + 1).resources[1].assigned_task
                = tasks[i].task_id
          /\ process_task(BeforeTask(i), i, day + 1).tasks[i].progress
                > tasks[i].progress

\* the resources some task holds
Held(rs) == {r \in 1..Len(rs) : rs[r].assigned_task # "None"}

\* the entries, visible or delayed, that only a task holding a resource gets:
\* progress events and random disruptions
WorkEntries(ls, dls) ==
    Cardinality({k \in 1..Len(ls) :
                    ls[k].event_type = "progress" \/ ls[k].reason = "random_disruption"})
        + Cardinality({k \in 1..Len(dls) :
                    dls[k].event_type = "progress" \/ dls[k].reason = "random_disruption"})

\* between days no resource is assigned; within the next day, before the i-th
\* task is processed (and after the last one), the held resources are held by
\* different tasks, all of them earlier in the loop and none COMPLETED before
\* this day
C22_Exclusive ==
    /\ pc \in {"constructed", "running", "returned"} => Held(resources) = {}
    /\ pc \in {"constructed", "running"} =>
          \A i \in 1..(Len(tasks) + 1) :
              ~BeforeTask(i).raised =>
                  /\ Cardinality(Held(BeforeTask(i).resources)) <= i - 1
                  /\ \A r \in Held(BeforeTask(i).resources) :
                        /\ \E j \in 1..(i - 1) :
                              /\ tasks[j].task_id = BeforeTask(i).resources[r].assigned_task
                              /\ tasks[j].status # "completed"
                        /\ \A q \in Held(BeforeTask(i).resources) :
                              q # r => BeforeTask(i).resources[q].assigned_task
                                          # BeforeTask(i).resources[r].assigned_task

\* a day adds at most as many progress and random-disruption entries as there
\* are resources
C22_Step ==
    (runNo' = runNo /\ day' = day + 1) =>
        WorkEntries(logs', delayed_logs') - WorkEntries(logs, delayed_logs)
            <= Len(resources)

\* C22 (resource assignment is exclusive and day-scoped): within a day no
\* resource is held by two tasks and no task holds two resources, so at most as
\* many tasks as there are resources get a progress or random_disruption event
\* that day; at the end of every day that simulate_day returns from, every
\* resource is unassigned, those of tasks completed or disrupted that day
\* included, so no assignment is carried over to the next day.
C22_ExclusiveDayScoped == []C22_Exclusive /\ [][C22_Step]_vars

\* after an earlier day, more tasks than resources are still open, the day to
\* come assigns every resource, one of them to a task that completes on it,
\* and all resources are unassigned now
C22_Witness ==
    /\ pc \in {"constructed", "running"}
    /\ day >= 1
    /\ \E i \in 1..Len(tasks) : tasks[i].progress > 0
    /\ Len(resources) >= 1
    /\ Held(resources) = {}
    /\ Cardinality({i \in 1..Len(tasks) : tasks[i].status # "completed"}) > Len(resources)
    /\ ~BeforeTask(Len(tasks) + 1).raised
    /\ Held(BeforeTask(Len(tasks) + 1).resources) = 1..Len(resources)
    /\ \E i \in 1..Len(tasks) :
          /\ tasks[i].status # "completed"
          /\ BeforeTask(Len(tasks) + 1).tasks[i].status = "completed"

-----------------------------------------------------------------------------
(* Properties of the order of the steps within a task's day *)

\* the i-th task, processed in s on the next day, is given a resource
GetsResource(s, i) == ReachesAllocation(s, i) /\ FreeResources(s.resources) # {}

\* the fields once the task has passed the checks and has been started
Activated(s, i) == start_task([s EXCEPT !.rng = Rand(@)], i, day + 1)

\* the random-disruption draw of the task, made in a
Disrupted(a) == Rand(a.rng) * 100 < noise.disruption_prob * 65537

\* the fields once the progress increment has been added and logged
Incremented(a, i) ==
    progress_task([a EXCEPT !.rng = Rand(@)], i, day + 1,
                  CHOOSE r \in FreeResources(a.resources) :
                      \A q \in FreeResources(a.resources) : r <= q)

\* the rework draw, made in b after the increment
Reworked(b) == Rand(b.rng) * 100 < noise.rework_prob * 65537

\* the progress after the increment and any rework
AfterRework(b, i) ==
    IF Reworked(b)
    THEN Max(0, b.tasks[i].progress - 4 * (50 * 65537 + 150 * Rand(Rand(b.rng))))
    ELSE b.tasks[i].progress

\* what the day does to the i-th task, from s to t, when it is given a resource
C23_Day(s, t, i) ==
    IF Disrupted(Activated(s, i))
    THEN /\ t.tasks[i].progress = s.tasks[i].progress
         /\ t.tasks[i].status = "in_progress"
         /\ t.tasks[i].actual_end = s.tasks[i].actual_end
    ELSE /\ Incremented(Activated(s, i), i).tasks[i].progress > s.tasks[i].progress
         /\ t.tasks[i].progress = AfterRework(Incremented(Activated(s, i), i), i)
         /\ t.tasks[i].status =
               IF AfterRework(Incremented(Activated(s, i), i), i) >= ProgressOne
               THEN "completed" ELSE "in_progress"
         /\ t.tasks[i].actual_end =
               IF AfterRework(Incremented(Activated(s, i), i), i) >= ProgressOne
               THEN day + 1 ELSE s.tasks[i].actual_end

C23_Order ==
    pc \in {"constructed", "running"} =>
        \A i \in 1..Len(tasks) :
            GetsResource(BeforeTask(i), i) =>
                C23_Day(BeforeTask(i), process_task(BeforeTask(i), i, day + 1), i)

\* a task becomes COMPLETED only on a day that leaves its progress at 1.0 or
\* more, and a day that leaves a task short of 1.0 leaves it not COMPLETED
C23_Step ==
    \A i \in 1..Len(tasks) :
        (runNo' = runNo /\ day' = day + 1) =>
            /\ (tasks[i].status # "completed" /\ tasks'[i].status = "completed")
                  => (tasks'[i].progress >= ProgressOne /\ tasks'[i].actual_end = day')
            /\ tasks'[i].progress < ProgressOne => tasks'[i].status # "completed"

\* C23 (order within a task's day): for a task that is given a resource and is
\* not disrupted, the day first adds the progress increment, then applies the
\* rework regression if one is drawn, then checks for completion: the task is
\* COMPLETED that day exactly when its progress after the increment and any
\* rework is >= 1.0, so a task pushed to 1.0 and pulled back below it by rework
\* stays IN_PROGRESS; a day with a random disruption changes neither the task's
\* progress nor its completion.
C23_OrderWithinDay == []C23_Order /\ [][C23_Step]_vars

\* the coming day pushes a task to 1.0 or more and a rework pulls it back
\* below, leaving it IN_PROGRESS
C23_Witness ==
    /\ pc \in {"constructed", "running"}
    /\ \E i \in 1..Len(tasks) :
          /\ GetsResource(BeforeTask(i), i)
          /\ ~Disrupted(Activated(BeforeTask(i), i))
          /\ Incremented(Activated(BeforeTask(i), i), i).tasks[i].progress >= ProgressOne
          /\ Reworked(Incremented(Activated(BeforeTask(i), i), i))
          /\ process_task(BeforeTask(i), i, day + 1).tasks[i].progress < ProgressOne
          /\ process_task(BeforeTask(i), i, day + 1).tasks[i].status = "in_progress"

-----------------------------------------------------------------------------
(* Properties of the delayed log *)

\* s is a prefix of t
IsPrefix(s, t) == Len(s) <= Len(t) /\ \A k \in 1..Len(s) : t[k] = s[k]

\* the entries of the queue that are due on day d, and those that are not,
\* both in queue order
Due(dls, d) == SelectSeq(dls, LAMBDA l : l.day <= d)
NotDue(dls, d) == SelectSeq(dls, LAMBDA l : l.day > d)

\* what a simulated day does to the visible log and to the queue
C24_Step ==
    (runNo' = runNo /\ day' = day + 1) =>
        \* the due entries come first, in queue order, then the events of the day
        /\ IsPrefix(logs \o Due(delayed_logs, day'), logs')
        /\ \A k \in (Len(logs) + Len(Due(delayed_logs, day')) + 1)..Len(logs') :
              logs'[k].day = day'
        \* the others stay queued, in order, followed by the entries queued today
        /\ IsPrefix(NotDue(delayed_logs, day'), delayed_logs')
        /\ \A k \in (Len(NotDue(delayed_logs, day')) + 1)..Len(delayed_logs') :
              /\ delayed_logs'[k].day >= day' + noise.log_delay_range[1]
              /\ delayed_logs'[k].day <= day' + noise.log_delay_range[2]

\* no entry is visible before its day, and no entry that is due stays queued
\* over a day
C24_Queue ==
    /\ \A k \in 1..Len(logs) : logs[k].day <= day
    /\ \A k \in 1..Len(delayed_logs) :
          /\ delayed_logs[k].day >= day
          /\ delayed_logs[k].day <= day + noise.log_delay_range[2]

\* once visible, an entry keeps its place
C24_Stable == (runNo' = runNo) => IsPrefix(logs, logs')

\* C24 (delayed-log flush): a delayed event is queued with a materialization
\* day = event day + d, delay_min <= d <= delay_max, and is not in the visible
\* log before that day; at the start of each day every queued entry whose
\* materialization day is <= the current day is moved to the visible log, in
\* queue order, before any event of that day; once visible, an entry never
\* moves or disappears.
C24_DelayedFlush == []C24_Queue /\ [][C24_Step]_vars /\ [][C24_Stable]_vars

\* a start event was released from the queue on a day after the task started,
\* and the queue holds an entry due tomorrow behind one that is not
C24_Witness ==
    /\ pc \in {"constructed", "running"}
    /\ \E k \in 1..Len(logs) : \E i \in 1..Len(tasks) :
          /\ logs[k].task_id = tasks[i].task_id
          /\ logs[k].event_type = "start"
          /\ logs[k].day > tasks[i].actual_start
    /\ \E k \in 1..Len(delayed_logs) : \E j \in 1..Len(delayed_logs) :
          /\ k < j
          /\ delayed_logs[k].day > day + 1
          /\ delayed_logs[j].day <= day + 1

-----------------------------------------------------------------------------
(* Properties of the numbers *)

\* C25 as stated (progress range): in every state reached during a run, every
\* task's progress lies in [0.0, 1.5]: a rework regression never takes it
\* below 0 and a progress increment never takes it above 1.5, for any
\* resource efficiency > 0 and complexity in 1..5.
C25_ProgressRange ==
    \A i \in 1..Len(tasks) : tasks[i].progress >= 0 /\ 2 * tasks[i].progress <= 3 * ProgressOne

-----------------------------------------------------------------------------
(* Properties of the random generator *)

\* the run of the first simulator with nothing else drawing from or seeding
\* the generator: the fields after the loop of run, from the fields s after
\* `it` iterations
RECURSIVE RunAlone(_, _)
RunAlone(s0, it) ==
    CHOOSE r \in {(
      IF it >= max_days \/ s.raised \/ (it >= 1 /\ \A i \in 1..Len(s.tasks) :
                                                   s.tasks[i].status = "completed")
      THEN s
      ELSE RunAlone(simulate_day(s, it + 1), it + 1)
      ) : s \in {s0}} : TRUE

Alone ==
    RunAlone([tasks |-> Projects[project].tasks, resources |-> Projects[project].resources,
              logs |-> << >>, delayed_logs |-> << >>, rng |-> SeedState(seed),
              raised |-> FALSE], 0)

\* C26 as stated (owned random generator): every stochastic decision of a
\* simulator is drawn from a generator owned by that instance and seeded once
\* at construction, so constructing or stepping a second ProjectSimulator
\* between the construction and the end of the first one's run changes neither
\* the first one's log nor its final task states: they are those of the run
\* made alone.
C26_OwnedGenerator ==
    (runNo = 1 /\ Ended) =>
        /\ (pc = "raised") = Alone.raised
        /\ logs = Alone.logs
        /\ tasks = Alone.tasks

-----------------------------------------------------------------------------
(* Properties of the normalized events table *)

\* the tables handed to build_task_features come from a simulator run
Normalized == pc = "returned" /\ fn = "build_task_features"

\* the day on which the transition of this row occurred, for the rows whose
\* day of occurrence the task itself records: start and complete
Occurred(row) ==
    LET task == CHOOSE t \in {arg.tasks[i] : i \in 1..Len(arg.tasks)} :
                    t.task_id = row.task_id
    IN IF row.event_type = "start" THEN task.actual_start ELSE task.actual_end

\* C27 as stated (delayed-log flag): in the normalized events table, `day` is
\* the day the transition occurred and `observed_day` the day it became visible
\* in the log, so observed_day >= day, and is_delayed_log is true exactly for
\* the events delayed by at least one day; checked on the start and complete
\* rows, whose day of occurrence is the task's actual_start and actual_end.
C27_DelayedFlag ==
    Normalized =>
        \A k \in 1..Len(arg.events) :
            arg.events[k].event_type \in {"start", "complete"} =>
                /\ arg.events[k].day = Occurred(arg.events[k])
                /\ arg.events[k].observed_day >= arg.events[k].day
                /\ arg.events[k].is_delayed_log
                      <=> (arg.events[k].observed_day > Occurred(arg.events[k]))

-----------------------------------------------------------------------------
(* Properties of the log at the end of a run *)

\* C28 as stated (no surviving event is lost): every event that is not dropped
\* is in the visible log by the time run returns, that is, the delayed queue
\* is empty at the end of a run, whether the run ended at max_days or by
\* completion; so when no log is dropped, the complete event of every
\* COMPLETED task, the last one included, is in the visible log.
C28_NothingLost ==
    pc = "returned" =>
        /\ delayed_logs = << >>
        /\ noise.log_drop_prob = 0 =>
              \A i \in 1..Len(tasks) :
                  tasks[i].status = "completed" =>
                      \E k \in 1..Len(logs) :
                          /\ logs[k].task_id = tasks[i].task_id
                          /\ logs[k].event_type = "complete"

\* C29 as stated (the visible log is ordered by day): the day fields of the
\* entries of ProjectSimulator.logs are non-decreasing along the log and never
\* exceed the current day counter, for every delay range with
\* 0 <= delay_min <= delay_max, (0, 0) included.
C29_OrderedByDay ==
    /\ \A k \in 1..Len(logs) : logs[k].day <= day
    /\ \A k \in 1..(Len(logs) - 1) : logs[k].day <= logs[k + 1].day

-----------------------------------------------------------------------------
(* Properties relating the what-if engine and the scorers *)

\* simulate_what_if has returned the perturbed record of a known scenario
Perturbed == fn = "simulate_what_if" /\ out.kind = "return"

\* the configurations whose weights are both non-negative
NonNegativeWeights ==
    {config \in Configs :
        /\ Setting(config, "risk_weights", "rule_weight", DEFAULT_RULE_WEIGHT) >= 0
        /\ Setting(config, "risk_weights", "ml_weight", DEFAULT_ML_WEIGHT) >= 0}

\* C30 (a what-if mitigation never raises the score): for every feature record
\* with non-negative fields and every known scenario, the rule score of
\* simulate_what_if(record, scenario) is <= the rule score of the record, and
\* with the same ml_probability and non-negative weights the hybrid risk_score
\* of the perturbed record is <= that of the original.
C30_NeverRaisesScore ==
    Perturbed =>
        /\ \A f \in DOMAIN arg.row : arg.row[f] >= 0
        /\ rule_based_risk(out.value).score <= rule_based_risk(arg.row).score
        /\ \A p \in Probabilities, config \in NonNegativeWeights :
              hybrid_risk_score(out.value, p, config).risk_score
                  <= hybrid_risk_score(arg.row, p, config).risk_score

\* a scenario took a record below two rule thresholds at once, lowering its
\* rule score and its hybrid score under the default weights
C30_Witness ==
    /\ Perturbed
    /\ arg.scenario = "reduce_dependencies"
    /\ rule_based_risk(out.value).score + 40 = rule_based_risk(arg.row).score
    /\ hybrid_risk_score(out.value, 50, [given |-> FALSE, d |-> << >>]).risk_score
          < hybrid_risk_score(arg.row, 50, [given |-> FALSE, d |-> << >>]).risk_score
    /\ \E f \in DOMAIN arg.row : out.value[f] = arg.row[f] /\ arg.row[f] > 0

====
